---------------------------- MODULE Spec2Model ----------------------------
(***************************************************************************)
(* A model of parts of the Stan math library:                              *)
(*   - the forward-mode log_mix overloads and log_mix_partial_helper       *)
(*     (stan/math/fwd/fun/log_mix.hpp),                                    *)
(*   - the overload guards of log_mix,                                     *)
(*   - the matrix-exponential action handler exercised by                  *)
(*     matrix_exp_action_handler_test (set_approximation_parameter,        *)
(*     action),                                                            *)
(*   - acosh, eigenvectors, cholesky_corr_constrain and                    *)
(*     trace_inv_quad_form_ldlt.                                           *)
(*                                                                         *)
(* Real numbers are exact rationals <<n, d>> with d > 0 in lowest terms.   *)
(* exp is modelled on integer arguments as ExpBase^n: every identity the   *)
(* code relies on (exp(a - b) = exp(a) / exp(b), exp > 0, monotone) holds  *)
(* for any base > 1, so the factored expressions and the textbook partials *)
(* are compared as different rational computations.                        *)
(***************************************************************************)
EXTENDS Integers, Sequences, FiniteSets, TLC

VARIABLES
  \* ---- log_mix (fwd/fun/log_mix.hpp)
  kinds,                \* the argument types <<theta, lambda1, lambda2>>
  theta,                \* [val, d]: value and tangent (d_) of theta
  lambda1,              \* [val, d]
  lambda2,              \* [val, d]
  lm_pc,                \* "call" | "done" | "rejected"
  branch,               \* "none" | "if" | "else": the lambda1 > lambda2 test
  exp_arg,              \* arguments given to exp() by the helper, in order
  partial_deriv_array,  \* the caller's array after the helper ran
  offsets,              \* the offsets the helper wrote, in order
  result,               \* [val, d]: the returned fvar
  candidates,           \* overloads whose guard the argument types satisfy
  \* ---- matrix_exp_action_handler
  ma_A,                 \* the square matrix A
  ma_b,                 \* the vector b
  ma_t,                 \* the time t
  ma_pc,                \* position in action() or in the test
  m_deg,                \* truncation degree chosen for this call
  s,                    \* number of sub-steps chosen for this call
  B,                    \* the vector a sub-step starts from
  F,                    \* the running sum of the current sub-step
  term,                 \* the newest series term
  i_step,               \* sub-steps completed
  j_term,               \* terms added in the current sub-step
  products,             \* matrix-vector products so far
  ma_ret,               \* the value action() returned
  test_params,          \* <<m1, s1, m2, s2>> of the test
  \* ---- acosh (prim/fun/acosh.hpp)
  ac_T,                 \* the arithmetic argument type: "int" | "double"
  ac_x,                 \* the argument
  ac_win32,             \* whether the build defines _WIN32
  ac_pc,                \* "call" | "returned" | "raised"
  ac_ret,               \* the value returned
  ac_err,               \* the exception raised
  \* ---- cholesky_corr_constrain, eigenvectors, trace_inv_quad_form_ldlt
  mf_fn,                \* the function called
  mf_pc,                \* "call" | "returned" | "raised"
  K,                    \* cholesky_corr_constrain: the size asked for
  y,                    \* cholesky_corr_constrain: the unconstrained vector
  lp,                   \* the caller's lp: the terms added to it, in order
  z,                    \* cholesky_corr_constrain: corr_constrain(y)
  x,                    \* the matrix built and returned
  mf_m,                 \* eigenvectors, trace: <<rows, cols>> of the matrix
  mf_B,                 \* trace: <<rows, cols>> of the second argument
  mf_err,               \* the exception raised
  \* ---- type traits: ref_type_if (prim/meta/ref_type.hpp) and
  \*      is_stan_scalar (prim/meta/is_stan_scalar.hpp)
  mt_fn,                \* the trait instantiated
  mt_T,                 \* the type argument T
  mt_Condition,         \* ref_type_if: the bool argument Condition
  mt_pc,                \* "instantiate" | "done"
  mt_type,              \* ref_type_if: the member type
  mt_selected,          \* ref_type_if: which alternative became the member
  mt_value              \* is_stan_scalar: the member value

lmVars == <<kinds, theta, lambda1, lambda2, lm_pc, branch, exp_arg,
            partial_deriv_array, offsets, result, candidates>>

maVars == <<ma_A, ma_b, ma_t, ma_pc, m_deg, s, B, F, term, i_step, j_term,
            products, ma_ret, test_params>>

acVars == <<ac_T, ac_x, ac_win32, ac_pc, ac_ret, ac_err>>

mfVars == <<mf_fn, mf_pc, K, y, lp, z, x, mf_m, mf_B, mf_err>>

mtVars == <<mt_fn, mt_T, mt_Condition, mt_pc, mt_type, mt_selected, mt_value>>

vars == <<lmVars, maVars, acVars, mfVars, mtVars>>

\* what a log_mix step leaves alone
nonLmVars == <<maVars, acVars, mfVars, mtVars>>

\* what a matrix-action step leaves alone
nonMaVars == <<lmVars, acVars, mfVars, mtVars>>

\* what an acosh step leaves alone
nonAcVars == <<lmVars, maVars, mfVars, mtVars>>

\* what a step of a matrix function leaves alone
nonMfVars == <<lmVars, maVars, acVars, mtVars>>

\* what the instantiation of a trait leaves alone
nonMtVars == <<lmVars, maVars, acVars, mfVars>>

---------------------------------------------------------------------------
(* Bounds of the model *)

MaxLam == 2
ThetaDen == 3
MaxTan == 1
ExpBase == 2

---------------------------------------------------------------------------
(* Exact rational arithmetic standing for the double operators.  The       *)
(* operations are functions, so that their arguments are evaluated once.   *)

Abs(a) == IF a < 0 THEN -a ELSE a

GcdF[a \in Nat, b \in Nat] == IF b = 0 THEN a ELSE GcdF[b, a % b]

Gcd(a, b) == GcdF[a, b]

NormF[n \in Int, d \in Int] ==
  LET g == GcdF[Abs(n), Abs(d)]
      sg == IF d < 0 THEN -1 ELSE 1
  IN <<(sg * n) \div g, (sg * d) \div g>>

Norm(n, d) == NormF[n, d]

Rat == Int \X Int

R(n) == <<n, 1>>

RAddF[a \in Rat, b \in Rat] ==
  LET g == GcdF[a[2], b[2]]
  IN NormF[a[1] * (b[2] \div g) + b[1] * (a[2] \div g), (a[2] \div g) * b[2]]

RAdd(a, b) == RAddF[a, b]

RNeg(a) == <<-a[1], a[2]>>

RSub(a, b) == RAddF[a, RNeg(b)]

RMulF[a \in Rat, b \in Rat] ==
  LET g1 == GcdF[Abs(a[1]), b[2]]
      g2 == GcdF[Abs(b[1]), a[2]]
  IN NormF[(a[1] \div g1) * (b[1] \div g2), (a[2] \div g2) * (b[2] \div g1)]

RMul(a, b) == RMulF[a, b]

RInvF[a \in Rat] == IF a[1] < 0 THEN <<-a[2], -a[1]>> ELSE <<a[2], a[1]>>

RInv(a) == RInvF[a]

RDiv(a, b) == RMulF[a, RInvF[b]]

RLessF[a \in Rat, b \in Rat] == a[1] * b[2] < b[1] * a[2]

RLess(a, b) == RLessF[a, b]

PowF[b \in Nat, n \in Nat] == IF n = 0 THEN 1 ELSE b * PowF[b, n - 1]

Pow(b, n) == PowF[b, n]

\* exp on an integer argument
Exp(n) == IF n >= 0 THEN <<Pow(ExpBase, n), 1>> ELSE <<1, Pow(ExpBase, -n)>>

\* a slot of a C array that was declared and never written
Uninit == <<0, 0>>

---------------------------------------------------------------------------
(* Argument types and the guards of the seven log_mix overloads *)

ArithKinds == {"double", "int"}
FvarKinds == {"fvar<double>", "fvar<fvar<double>>"}
AllKinds == ArithKinds \cup FvarKinds \cup {"var", "complex<double>"}

is_arithmetic(k) == k \in ArithKinds
is_fvar(k) == k \in FvarKinds

\* promote_args_t of the three argument types (at least one of them an fvar,
\* the others arithmetic, as in every call this file makes)
promote_args(k1, k2, k3) ==
  IF is_fvar(k1) THEN k1 ELSE IF is_fvar(k2) THEN k2 ELSE IF is_fvar(k3) THEN k3
  ELSE "double"

\* the parameter lists: "F" is const fvar<T>&, "P" is a deduced type that
\* require_all_arithmetic_t admits
Signatures ==
  << <<"F", "F", "F">>,
     <<"F", "F", "P">>,
     <<"F", "P", "F">>,
     <<"P", "F", "F">>,
     <<"F", "P", "P">>,
     <<"P", "F", "P">>,
     <<"P", "P", "F">> >>

Overloads == 1..7

\* a variant of Matches without the require_all_arithmetic_t guard: a P
\* position then deduces any type
Matches_unguarded(ov, ks) ==
  /\ \A i \in 1..3 : Signatures[ov][i] = "F" => is_fvar(ks[i])
  /\ \A i, j \in 1..3 :
       (Signatures[ov][i] = "F" /\ Signatures[ov][j] = "F") => ks[i] = ks[j]

\* template deduction and the SFINAE guard of overload ov on argument types ks:
\* every F position holds an fvar of one and the same T, every P position an
\* arithmetic type
Matches(ov, ks) ==
  /\ \A i \in 1..3 : Signatures[ov][i] = "F" => is_fvar(ks[i])
  /\ \A i, j \in 1..3 :
       (Signatures[ov][i] = "F" /\ Signatures[ov][j] = "F") => ks[i] = ks[j]
  /\ \A i \in 1..3 : Signatures[ov][i] = "P" => is_arithmetic(ks[i])

---------------------------------------------------------------------------
(* log_mix_partial_helper *)

\* partials_array[off] = v; a write past the end of the array leaves the
\* model's array alone (the offset is still recorded by the caller)
Store(arr, off, v) == IF off < Len(arr) THEN [arr EXCEPT ![off + 1] = v] ELSE arr

\* a variant of lam2_m_lam1 with the operands exchanged
lam2_m_lam1_exchanged(l1, l2) == l1 - l2

\* auto lam2_m_lam1 = lambda2 - lambda1
lam2_m_lam1(l1, l2) == l2 - l1

\* a variant of one_m_exp_lam2_m_lam1 that subtracts 1 from the exponential
exp_lam2_m_lam1_m_one(e) == RSub(e, R(1))

\* auto one_m_exp_lam2_m_lam1 = 1.0 - exp_lam2_m_lam1
one_m_exp_lam2_m_lam1(e) == RSub(R(1), e)

\* th is a rational, l1 and l2 integers; T_theta, T_lambda1, T_lambda2 are the
\* argument types of this call and N the length of the caller's array.  When an
\* argument is an fvar the arithmetic below is the fvar arithmetic on values,
\* which is what value_of() of each slot returns.  Returns the argument given
\* to exp, the array as written and the offsets written, in order.
log_mix_partial_helper(th, l1, l2, T_theta, T_lambda1, T_lambda2, N) ==
  LET partial_return_type == promote_args(T_theta, T_lambda1, T_lambda2)
      exp_lam2_m_lam1 == Exp(lam2_m_lam1(l1, l2))
      one_m_t == RSub(R(1), th)
      one_m_t_prod_exp_lam2_m_lam1 == RMul(one_m_t, exp_lam2_m_lam1)
      t_plus_one_m_t_prod_exp_lam2_m_lam1 ==
        RAdd(th, one_m_t_prod_exp_lam2_m_lam1)
      one_d_t_plus_one_m_t_prod_exp_lam2_m_lam1 ==
        RDiv(R(1), t_plus_one_m_t_prod_exp_lam2_m_lam1)
      a0 == [i \in 1..N |-> Uninit]
      w0 == <<>>
      offset0 == 0
      is0 == T_theta = partial_return_type
      a1 == IF is0
            THEN Store(a0, offset0,
                       RMul(one_m_exp_lam2_m_lam1(exp_lam2_m_lam1),
                            one_d_t_plus_one_m_t_prod_exp_lam2_m_lam1))
            ELSE a0
      w1 == IF is0 THEN Append(w0, offset0) ELSE w0
      offset1 == IF is0 THEN offset0 + 1 ELSE offset0
      is1 == T_lambda1 = partial_return_type
      a2 == IF is1
            THEN Store(a1, offset1,
                       RMul(th, one_d_t_plus_one_m_t_prod_exp_lam2_m_lam1))
            ELSE a1
      w2 == IF is1 THEN Append(w1, offset1) ELSE w1
      offset2 == IF is1 THEN offset1 + 1 ELSE offset1
      is2 == T_lambda2 = partial_return_type
      a3 == IF is2
            THEN Store(a2, offset2,
                       RMul(one_m_t_prod_exp_lam2_m_lam1,
                            one_d_t_plus_one_m_t_prod_exp_lam2_m_lam1))
            ELSE a2
      w3 == IF is2 THEN Append(w2, offset2) ELSE w2
  IN [exp_arg |-> lam2_m_lam1(l1, l2), partials_array |-> a3, offsets |-> w3]

---------------------------------------------------------------------------
(* The seven log_mix overloads.  Each takes the three arguments as records  *)
(* [val, d] (d is read only of fvar arguments) and returns the fvar built,  *)
(* with the branch taken and what the helper did.                           *)

\* the arithmetic log_mix of the primal values (prim/fun/log_mix.hpp), kept
\* as a term
prim_log_mix(th, l1, l2) == <<"log_mix", th, l1, l2>>

\* fvar<T>(val, d) together with the trace of the call
Fvar(v, d, br, h) == [val |-> v, d |-> d, branch |-> br, h |-> h]

log_mix_fff(th, l1, l2) ==
  IF l1.val > l2.val
  THEN LET h == log_mix_partial_helper(th.val, l1.val, l2.val,
                  "fvar<double>", "fvar<double>", "fvar<double>", 3)
           p == h.partials_array
       IN Fvar(prim_log_mix(th.val, l1.val, l2.val),
               RAdd(RAdd(RMul(th.d, p[1]), RMul(l1.d, p[2])), RMul(l2.d, p[3])),
               "if", h)
  ELSE LET h == log_mix_partial_helper(RSub(R(1), th.val), l2.val, l1.val,
                  "fvar<double>", "fvar<double>", "fvar<double>", 3)
           p == h.partials_array
       IN Fvar(prim_log_mix(th.val, l1.val, l2.val),
               RAdd(RAdd(RMul(RNeg(th.d), p[1]), RMul(l1.d, p[3])),
                    RMul(l2.d, p[2])),
               "else", h)

log_mix_ffp(th, l1, l2) ==
  IF l1.val > l2.val
  THEN LET h == log_mix_partial_helper(th.val, l1.val, l2.val,
                  "fvar<double>", "fvar<double>", "double", 2)
           p == h.partials_array
       IN Fvar(prim_log_mix(th.val, l1.val, l2.val),
               RAdd(RMul(th.d, p[1]), RMul(l1.d, p[2])),
               "if", h)
  ELSE LET h == log_mix_partial_helper(RSub(R(1), th.val), l2.val, l1.val,
                  "fvar<double>", "double", "fvar<double>", 2)
           p == h.partials_array
       IN Fvar(prim_log_mix(th.val, l1.val, l2.val),
               RAdd(RMul(RNeg(th.d), p[1]), RMul(l1.d, p[2])),
               "else", h)

log_mix_fpf(th, l1, l2) ==
  IF l1.val > l2.val
  THEN LET h == log_mix_partial_helper(th.val, l1.val, l2.val,
                  "fvar<double>", "double", "fvar<double>", 2)
           p == h.partials_array
       IN Fvar(prim_log_mix(th.val, l1.val, l2.val),
               RAdd(RMul(th.d, p[1]), RMul(l2.d, p[2])),
               "if", h)
  ELSE LET h == log_mix_partial_helper(RSub(R(1), th.val), l2.val, l1.val,
                  "fvar<double>", "fvar<double>", "double", 2)
           p == h.partials_array
       IN Fvar(prim_log_mix(th.val, l1.val, l2.val),
               RAdd(RMul(RNeg(th.d), p[1]), RMul(l2.d, p[2])),
               "else", h)

\* a variant of log_mix_pff whose else branch reads the slots in the order of
\* the if branch
log_mix_pff_unswapped(th, l1, l2) ==
  IF l1.val > l2.val
  THEN LET h == log_mix_partial_helper(th.val, l1.val, l2.val,
                  "double", "fvar<double>", "fvar<double>", 2)
           p == h.partials_array
       IN Fvar(prim_log_mix(th.val, l1.val, l2.val),
               RAdd(RMul(l1.d, p[1]), RMul(l2.d, p[2])),
               "if", h)
  ELSE LET h == log_mix_partial_helper(RSub(R(1), th.val), l2.val, l1.val,
                  "double", "fvar<double>", "fvar<double>", 2)
           p == h.partials_array
       IN Fvar(prim_log_mix(th.val, l1.val, l2.val),
               RAdd(RMul(l1.d, p[1]), RMul(l2.d, p[2])),
               "else", h)

log_mix_pff(th, l1, l2) ==
  IF l1.val > l2.val
  THEN LET h == log_mix_partial_helper(th.val, l1.val, l2.val,
                  "double", "fvar<double>", "fvar<double>", 2)
           p == h.partials_array
       IN Fvar(prim_log_mix(th.val, l1.val, l2.val),
               RAdd(RMul(l1.d, p[1]), RMul(l2.d, p[2])),
               "if", h)
  ELSE LET h == log_mix_partial_helper(RSub(R(1), th.val), l2.val, l1.val,
                  "double", "fvar<double>", "fvar<double>", 2)
           p == h.partials_array
       IN Fvar(prim_log_mix(th.val, l1.val, l2.val),
               RAdd(RMul(l1.d, p[2]), RMul(l2.d, p[1])),
               "else", h)

\* A variant of the overload for (fvar, arithmetic, arithmetic) whose else
\* branch does not negate theta's tangent.
log_mix_fpp_not_negated(th, l1, l2) ==
  IF l1.val > l2.val
  THEN LET h == log_mix_partial_helper(th.val, l1.val, l2.val,
                  "fvar<double>", "double", "double", 1)
           p == h.partials_array
       IN Fvar(prim_log_mix(th.val, l1.val, l2.val),
               RMul(th.d, p[1]),
               "if", h)
  ELSE LET h == log_mix_partial_helper(RSub(R(1), th.val), l2.val, l1.val,
                  "fvar<double>", "double", "double", 1)
           p == h.partials_array
       IN Fvar(prim_log_mix(th.val, l1.val, l2.val),
               RMul(th.d, p[1]),
               "else", h)

log_mix_fpp(th, l1, l2) ==
  IF l1.val > l2.val
  THEN LET h == log_mix_partial_helper(th.val, l1.val, l2.val,
                  "fvar<double>", "double", "double", 1)
           p == h.partials_array
       IN Fvar(prim_log_mix(th.val, l1.val, l2.val),
               RMul(th.d, p[1]),
               "if", h)
  ELSE LET h == log_mix_partial_helper(RSub(R(1), th.val), l2.val, l1.val,
                  "fvar<double>", "double", "double", 1)
           p == h.partials_array
       IN Fvar(prim_log_mix(th.val, l1.val, l2.val),
               RMul(RNeg(th.d), p[1]),
               "else", h)

\* A variant of the overload for (arithmetic, fvar, arithmetic) whose else
\* branch declares partial_deriv_array[2].
log_mix_pfp_two_slots(th, l1, l2) ==
  IF l1.val > l2.val
  THEN LET h == log_mix_partial_helper(th.val, l1.val, l2.val,
                  "double", "fvar<double>", "double", 1)
           p == h.partials_array
       IN Fvar(prim_log_mix(th.val, l1.val, l2.val),
               RMul(l1.d, p[1]),
               "if", h)
  ELSE LET h == log_mix_partial_helper(RSub(R(1), th.val), l2.val, l1.val,
                  "double", "double", "fvar<double>", 2)
           p == h.partials_array
       IN Fvar(prim_log_mix(th.val, l1.val, l2.val),
               RMul(l1.d, p[1]),
               "else", h)

log_mix_pfp(th, l1, l2) ==
  IF l1.val > l2.val
  THEN LET h == log_mix_partial_helper(th.val, l1.val, l2.val,
                  "double", "fvar<double>", "double", 1)
           p == h.partials_array
       IN Fvar(prim_log_mix(th.val, l1.val, l2.val),
               RMul(l1.d, p[1]),
               "if", h)
  ELSE LET h == log_mix_partial_helper(RSub(R(1), th.val), l2.val, l1.val,
                  "double", "double", "fvar<double>", 1)
           p == h.partials_array
       IN Fvar(prim_log_mix(th.val, l1.val, l2.val),
               RMul(l1.d, p[1]),
               "else", h)

\* A variant of the overload for (arithmetic, arithmetic, fvar) whose else
\* branch passes theta instead of 1.0 - theta to the helper.
log_mix_ppf_same_theta(th, l1, l2) ==
  IF l1.val > l2.val
  THEN LET h == log_mix_partial_helper(th.val, l1.val, l2.val,
                  "double", "double", "fvar<double>", 1)
           p == h.partials_array
       IN Fvar(prim_log_mix(th.val, l1.val, l2.val),
               RMul(l2.d, p[1]),
               "if", h)
  ELSE LET h == log_mix_partial_helper(th.val, l2.val, l1.val,
                  "double", "fvar<double>", "double", 1)
           p == h.partials_array
       IN Fvar(prim_log_mix(th.val, l1.val, l2.val),
               RMul(l2.d, p[1]),
               "else", h)

log_mix_ppf(th, l1, l2) ==
  IF l1.val > l2.val
  THEN LET h == log_mix_partial_helper(th.val, l1.val, l2.val,
                  "double", "double", "fvar<double>", 1)
           p == h.partials_array
       IN Fvar(prim_log_mix(th.val, l1.val, l2.val),
               RMul(l2.d, p[1]),
               "if", h)
  ELSE LET h == log_mix_partial_helper(RSub(R(1), th.val), l2.val, l1.val,
                  "double", "fvar<double>", "double", 1)
           p == h.partials_array
       IN Fvar(prim_log_mix(th.val, l1.val, l2.val),
               RMul(l2.d, p[1]),
               "else", h)

---------------------------------------------------------------------------
(* log_mix: initial states and actions *)

Thetas == {Norm(k, ThetaDen) : k \in 0..ThetaDen}
Lambdas == (-MaxLam)..MaxLam

\* an fvar argument carries a tangent; an arithmetic argument has none (0)
Tangents(k) == IF is_fvar(k) THEN {R(t) : t \in (-MaxTan)..MaxTan} ELSE {R(0)}

LogMixKinds ==
  {ks \in {<<a, b, c>> : a, b, c \in {"fvar<double>", "double"}} :
     \E i \in 1..3 : is_fvar(ks[i])}

NoResult == [val |-> <<"none">>, d |-> R(0)]

InitLogMixArgs ==
  /\ theta \in [val : Thetas, d : Tangents(kinds[1])]
  /\ lambda1 \in [val : Lambdas, d : Tangents(kinds[2])]
  /\ lambda2 \in [val : Lambdas, d : Tangents(kinds[3])]
  /\ branch = "none"
  /\ exp_arg = <<>>
  /\ partial_deriv_array = <<>>
  /\ offsets = <<>>
  /\ result = NoResult
  /\ candidates = {}

\* no matrix-action call is in progress
ActionIdle ==
  /\ ma_A = <<>> /\ ma_b = <<>> /\ ma_t = 0 /\ ma_pc = "idle"
  /\ m_deg = 0 /\ s = 0 /\ B = <<>> /\ F = <<>> /\ term = <<>>
  /\ i_step = 0 /\ j_term = 0 /\ products = 0 /\ ma_ret = <<>>
  /\ test_params = <<>>

\* a double: not-a-number, an infinity (v is its sign) or the finite value v
NaN == [cls |-> "nan", v |-> <<0, 1>>]
Inf(sign) == [cls |-> "inf", v |-> <<sign, 1>>]
Fin(q) == [cls |-> "fin", v |-> q]

\* no value returned, no exception raised
NoValue == [cls |-> "none", v |-> <<0, 1>>]
NoError == [type |-> "none", function |-> "", name |-> "", bound |-> <<0, 1>>]

\* no acosh call is in progress
AcoshIdle ==
  /\ ac_T = "none" /\ ac_x = NoValue /\ ac_win32 = FALSE /\ ac_pc = "idle"
  /\ ac_ret = NoValue /\ ac_err = NoError

\* a matrix that has not been built, a vector that has not been computed
NoMatrix == [shape |-> <<>>, coeff |-> <<>>]
NoVector == <<<<"unset", 0>>>>

\* no matrix function is being called
MatFunIdle ==
  /\ mf_fn = "none" /\ mf_pc = "idle" /\ K = 0 /\ y = <<>> /\ lp = <<>>
  /\ z = NoVector /\ x = NoMatrix /\ mf_m = <<>> /\ mf_B = <<>>
  /\ mf_err = NoError

\* a type: the template it instantiates ("" for a built-in type), the name
\* of its argument or of the built-in type, its reference kind and whether
\* it is const
NoType == [tmpl |-> "", arg |-> "none", ref |-> "none", const |-> FALSE]

\* no trait is being instantiated
TraitsIdle ==
  /\ mt_fn = "none" /\ mt_T = NoType /\ mt_Condition = FALSE
  /\ mt_pc = "idle" /\ mt_type = NoType /\ mt_selected = "none"
  /\ mt_value = FALSE

\* the rest of the program is idle during a log_mix call
LogMixAlone == ActionIdle /\ AcoshIdle /\ MatFunIdle /\ TraitsIdle

InitLogMix ==
  /\ kinds \in LogMixKinds
  /\ lm_pc = "call"
  /\ InitLogMixArgs
  /\ LogMixAlone

\* the return of an overload: the fvar and the trace of the helper call
Return(r) ==
  /\ result' = [val |-> r.val, d |-> r.d]
  /\ branch' = r.branch
  /\ exp_arg' = <<r.h.exp_arg>>
  /\ partial_deriv_array' = r.h.partials_array
  /\ offsets' = r.h.offsets
  /\ lm_pc' = "done"
  /\ UNCHANGED <<kinds, theta, lambda1, lambda2, candidates>>
  /\ UNCHANGED nonLmVars

LogMix_fff ==
  /\ lm_pc = "call" /\ Matches(1, kinds)
  /\ Return(log_mix_fff(theta, lambda1, lambda2))

LogMix_ffp ==
  /\ lm_pc = "call" /\ Matches(2, kinds)
  /\ Return(log_mix_ffp(theta, lambda1, lambda2))

LogMix_fpf ==
  /\ lm_pc = "call" /\ Matches(3, kinds)
  /\ Return(log_mix_fpf(theta, lambda1, lambda2))

LogMix_pff ==
  /\ lm_pc = "call" /\ Matches(4, kinds)
  /\ Return(log_mix_pff(theta, lambda1, lambda2))

LogMix_fpp ==
  /\ lm_pc = "call" /\ Matches(5, kinds)
  /\ Return(log_mix_fpp(theta, lambda1, lambda2))

LogMix_pfp ==
  /\ lm_pc = "call" /\ Matches(6, kinds)
  /\ Return(log_mix_pfp(theta, lambda1, lambda2))

LogMix_ppf ==
  /\ lm_pc = "call" /\ Matches(7, kinds)
  /\ Return(log_mix_ppf(theta, lambda1, lambda2))

\* the number of arguments whose type is the promoted type: the N a caller
\* of the helper declares
NFvar(ks) == Cardinality({i \in 1..3 : is_fvar(ks[i])})

\* a direct call log_mix_partial_helper(theta, lambda1, lambda2, array)
HelperCall ==
  /\ lm_pc = "call"
  /\ LET h == log_mix_partial_helper(theta.val, lambda1.val, lambda2.val,
                                     kinds[1], kinds[2], kinds[3], NFvar(kinds))
     IN /\ exp_arg' = <<h.exp_arg>>
        /\ partial_deriv_array' = h.partials_array
        /\ offsets' = h.offsets
  /\ lm_pc' = "helper_done"
  /\ UNCHANGED <<kinds, theta, lambda1, lambda2, branch, result, candidates>>
  /\ UNCHANGED nonLmVars

NextLogMix ==
  \/ LogMix_fff
  \/ LogMix_ffp
  \/ LogMix_fpf
  \/ LogMix_pff
  \/ LogMix_fpp
  \/ LogMix_pfp
  \/ LogMix_ppf
  \/ HelperCall

SpecLogMix == InitLogMix /\ [][NextLogMix]_vars

---------------------------------------------------------------------------
(* Overload resolution of a call log_mix(a, b, c) *)

InitOverload ==
  /\ kinds \in {<<a, b, c>> : a, b, c \in AllKinds}
  /\ lm_pc = "resolve"
  /\ theta = [val |-> R(0), d |-> R(0)]
  /\ lambda1 = [val |-> 0, d |-> R(0)]
  /\ lambda2 = [val |-> 0, d |-> R(0)]
  /\ branch = "none"
  /\ exp_arg = <<>>
  /\ partial_deriv_array = <<>>
  /\ offsets = <<>>
  /\ result = NoResult
  /\ candidates = {}
  /\ LogMixAlone

\* the compiler collects the overloads of this file whose deduction and guard
\* succeed; none: no viable function here, two or more of these equally
\* specialised templates: ambiguous
Resolve ==
  /\ lm_pc = "resolve"
  /\ candidates' = {ov \in Overloads : Matches(ov, kinds)}
  /\ lm_pc' = IF candidates' = {} THEN "rejected"
              ELSE IF Cardinality(candidates') = 1 THEN "call"
              ELSE "ambiguous"
  /\ UNCHANGED <<kinds, theta, lambda1, lambda2, branch, exp_arg,
                 partial_deriv_array, offsets, result>>
  /\ UNCHANGED nonLmVars

NextOverload == Resolve

SpecOverload == InitOverload /\ [][NextOverload]_vars

---------------------------------------------------------------------------
(* The partial derivatives of log_mix as the documentation states them *)

Denominator(th, l1, l2) ==
  RAdd(RMul(th, Exp(l1)), RMul(RSub(R(1), th), Exp(l2)))

d_dtheta(th, l1, l2) ==
  RDiv(RSub(Exp(l1), Exp(l2)), Denominator(th, l1, l2))

d_dlambda1(th, l1, l2) == RDiv(RMul(th, Exp(l1)), Denominator(th, l1, l2))

d_dlambda2(th, l1, l2) ==
  RDiv(RMul(RSub(R(1), th), Exp(l2)), Denominator(th, l1, l2))

\* the chain-rule term of argument i: tangent times partial for an fvar, no
\* term for an arithmetic argument
ChainTerm(i) ==
  IF ~is_fvar(kinds[i]) THEN R(0)
  ELSE IF i = 1
       THEN RMul(theta.d, d_dtheta(theta.val, lambda1.val, lambda2.val))
  ELSE IF i = 2
       THEN RMul(lambda1.d, d_dlambda1(theta.val, lambda1.val, lambda2.val))
  ELSE RMul(lambda2.d, d_dlambda2(theta.val, lambda1.val, lambda2.val))

FvarTangents == {IF i = 1 THEN theta.d ELSE IF i = 2 THEN lambda1.d ELSE lambda2.d :
                   i \in {j \in 1..3 : is_fvar(kinds[j])}}

\* C1: after any of the seven overloads returns, in either branch, the
\* derivative of the result is the sum over the fvar arguments of tangent
\* times the partial derivative with respect to that argument; arithmetic
\* arguments add nothing, and all-zero tangents give derivative 0.
C1_ChainRule ==
  lm_pc = "done" =>
    /\ result.d = RAdd(RAdd(ChainTerm(1), ChainTerm(2)), ChainTerm(3))
    /\ (FvarTangents = {R(0)} => result.d = R(0))

\* a call of the (arithmetic, fvar, fvar) overload through its else branch
\* with nonzero tangents and a nonzero derivative
C1_Witness ==
  /\ lm_pc = "done"
  /\ kinds = <<"double", "fvar<double>", "fvar<double>">>
  /\ branch = "else"
  /\ lambda1.d = R(1) /\ lambda2.d = R(-1)
  /\ lambda1.val # lambda2.val
  /\ result.d # R(0)

\* the slot of the caller's array that holds the partial of argument i
SlotOf(i) == Cardinality({j \in 1..i : is_fvar(kinds[j])})

DocPartial(i) ==
  IF i = 1 THEN d_dtheta(theta.val, lambda1.val, lambda2.val)
  ELSE IF i = 2 THEN d_dlambda1(theta.val, lambda1.val, lambda2.val)
  ELSE d_dlambda2(theta.val, lambda1.val, lambda2.val)

\* C2: called as log_mix_partial_helper(theta, lambda1, lambda2), each factored
\* expression the helper stores equals the documented partial over the
\* denominator theta*exp(lambda1) + (1-theta)*exp(lambda2), and the lambda1 and
\* lambda2 partials it stores add up to 1.
C2_HelperPartials ==
  lm_pc = "helper_done" =>
    /\ \A i \in 1..3 :
         is_fvar(kinds[i]) => partial_deriv_array[SlotOf(i)] = DocPartial(i)
    /\ (is_fvar(kinds[2]) /\ is_fvar(kinds[3])) =>
         RAdd(partial_deriv_array[SlotOf(2)], partial_deriv_array[SlotOf(3)])
           = R(1)

\* a direct call with three fvar arguments, theta strictly inside (0, 1) and
\* lambda1 below lambda2
C2_Witness ==
  /\ lm_pc = "helper_done"
  /\ \A i \in 1..3 : is_fvar(kinds[i])
  /\ RLess(R(0), theta.val) /\ RLess(theta.val, R(1))
  /\ lambda1.val < lambda2.val
  /\ Len(partial_deriv_array) = 3

\* C3: in every overload and either branch the helper evaluates exactly one
\* exponential, of lambda2 - lambda1 < 0 in the if branch and of
\* lambda1 - lambda2 <= 0 in the else branch; exp(lambda1) and exp(lambda2)
\* are not evaluated on their own.
C3_ExpArgNonPositive ==
  lm_pc = "done" =>
    /\ Len(exp_arg) = 1
    /\ exp_arg[1] <= 0
    /\ branch = "if" =>
         (lambda1.val > lambda2.val /\ exp_arg[1] = lambda2.val - lambda1.val
            /\ exp_arg[1] < 0)
    /\ branch = "else" =>
         (lambda1.val <= lambda2.val /\ exp_arg[1] = lambda1.val - lambda2.val)
    /\ branch \in {"if", "else"}

\* the else branch taken with lambda1 strictly below lambda2 and both nonzero
C3_Witness ==
  /\ lm_pc = "done"
  /\ branch = "else"
  /\ lambda1.val < lambda2.val
  /\ lambda1.val > 0
  /\ exp_arg = <<lambda1.val - lambda2.val>>

---------------------------------------------------------------------------
(* Overload resolution *)

ADKinds == FvarKinds \cup {"var"}

\* every argument is fvar<T> for one T or arithmetic, and at least one is fvar<T>
FvarOrArithmetic(ks) ==
  \E T \in FvarKinds :
    /\ \A i \in 1..3 : ks[i] = T \/ is_arithmetic(ks[i])
    /\ \E i \in 1..3 : ks[i] = T

\* an fvar<T> together with an AD scalar of another type
MixedAD(ks) ==
  \E i, j \in 1..3 : is_fvar(ks[i]) /\ ks[j] \in ADKinds /\ ks[j] # ks[i]

\* C4: for argument types drawn from fvar<T> and arithmetic with at least one
\* fvar<T>, exactly one of the seven overloads has its guard satisfied; for a
\* tuple mixing fvar<T> with another AD scalar type none has, and the call is
\* rejected.
C4_ExactlyOneOverload ==
  lm_pc # "resolve" =>
    /\ FvarOrArithmetic(kinds) =>
         (Cardinality(candidates) = 1 /\ lm_pc = "call")
    /\ MixedAD(kinds) => (candidates = {} /\ lm_pc = "rejected")

\* log_mix(int, fvar<fvar<double>>, double) resolved to the sixth overload
C4_Witness ==
  /\ lm_pc = "call"
  /\ kinds = <<"int", "fvar<fvar<double>>", "double">>
  /\ candidates = {6}

---------------------------------------------------------------------------
(* matrix_exp_action_handler: exp(t A) b without forming exp(t A).  The     *)
(* handler's code is not among the source files; set_approximation_parameter*)
(* and action follow section 4.4 of the specification, and the test         *)
(* matrix_exp_action_vector drives them.                                    *)

MaxEntry == 1
MaxT == 2

\* the matrices are 2 x 2 and the vectors have 2 rows
Idx == {1, 2}

Entries == (-MaxEntry)..MaxEntry
Matrices == {<<<<a, b>>, <<c, d>>>> : a, b, c, d \in Entries}
Vectors == {<<R(1), R(0)>>, <<R(1), R(1)>>, <<R(-1), R(2)>>, <<R(0), R(0)>>}
Times == 0..MaxT

\* no log_mix call is in progress
LogMixIdle ==
  /\ kinds = <<>> /\ lm_pc = "idle"
  /\ theta = [val |-> R(0), d |-> R(0)]
  /\ lambda1 = [val |-> 0, d |-> R(0)]
  /\ lambda2 = [val |-> 0, d |-> R(0)]
  /\ branch = "none" /\ exp_arg = <<>> /\ partial_deriv_array = <<>>
  /\ offsets = <<>> /\ result = NoResult /\ candidates = {}

RAbsF[a \in Rat] == <<Abs(a[1]), a[2]>>
RAbs(a) == RAbsF[a]
RMaxF[a \in Rat, b \in Rat] == IF RLessF[a, b] THEN b ELSE a
RMax(a, b) == RMaxF[a, b]
Max(a, b) == IF a < b THEN b ELSE a

\* A *= t
Scale(Amat, tt) == [r \in Idx |-> [c \in Idx |-> tt * Amat[r][c]]]

\* the 1-norm of an integer matrix: the largest column sum of absolute values
Norm1(Amat) ==
  Max(Abs(Amat[1][1]) + Abs(Amat[2][1]), Abs(Amat[1][2]) + Abs(Amat[2][2]))

\* the infinity norm of a vector
NormInf(v) == RMax(RAbs(v[1]), RAbs(v[2]))

\* A * v
MatVec(Amat, v) ==
  [r \in Idx |-> RAdd(RMul(R(Amat[r][1]), v[1]), RMul(R(Amat[r][2]), v[2]))]

VecAdd(u, v) == [r \in Idx |-> RAdd(u[r], v[r])]
VecScale(c, v) == [r \in Idx |-> RMul(c, v[r])]

\* the tabulated data: theta_m[m] is the largest norm a series of degree m
\* handles in one sub-step
theta_m == <<1, 2, 3>>
m_max == Len(theta_m)

\* the early-stop tolerance
tol == <<1, 8>>

CeilDiv(a, b) == (a + b - 1) \div b

\* matrix-vector products when degree m is used for norm n
Cost(m, n) == m * CeilDiv(n, theta_m[m])

\* a variant of set_approximation_parameter that reads the norm of A and
\* ignores t
set_approximation_parameter_unscaled(Amat, tt) ==
  LET n == Norm1(Amat)
  IN IF n = 0 THEN <<0, 1>>
     ELSE LET m == CHOOSE m \in 1..m_max :
                     \A k \in 1..m_max :
                       \/ Cost(m, n) < Cost(k, n)
                       \/ (Cost(m, n) = Cost(k, n) /\ m >= k)
          IN <<m, CeilDiv(n, theta_m[m])>>

\* (m_deg, s) for exp(tt * Amat): from the 1-norm of tt * Amat, the degree that
\* needs the fewest products (the higher degree on a tie) and its number of
\* sub-steps
set_approximation_parameter(Amat, tt) ==
  LET n == Norm1(Scale(Amat, tt))
  IN IF n = 0 THEN <<0, 1>>
     ELSE LET m == CHOOSE m \in 1..m_max :
                     \A k \in 1..m_max :
                       \/ Cost(m, n) < Cost(k, n)
                       \/ (Cost(m, n) = Cost(k, n) /\ m >= k)
          IN <<m, CeilDiv(n, theta_m[m])>>

InitAction ==
  /\ ma_A \in Matrices
  /\ ma_b \in Vectors
  /\ ma_t \in Times
  /\ ma_pc = "start"
  /\ m_deg = 0 /\ s = 0 /\ B = <<>> /\ F = <<>> /\ term = <<>>
  /\ i_step = 0 /\ j_term = 0 /\ products = 0 /\ ma_ret = <<>>
  /\ test_params = <<>>
  /\ LogMixIdle /\ AcoshIdle /\ MatFunIdle /\ TraitsIdle

\* the parameter part of the test: (m1, s1) for (A, t1), then A *= t1 and
\* (m2, s2) for (A, 1)
TestParams ==
  /\ ma_pc = "start"
  /\ LET p1 == set_approximation_parameter(ma_A, ma_t)
         A2 == Scale(ma_A, ma_t)
         p2 == set_approximation_parameter(A2, 1)
     IN /\ ma_A' = A2
        /\ test_params' = <<p1[1], p1[2], p2[1], p2[2]>>
  /\ ma_pc' = "tested"
  /\ UNCHANGED <<ma_b, ma_t, m_deg, s, B, F, term, i_step, j_term, products,
                 ma_ret>>
  /\ UNCHANGED nonMaVars

\* action(A, b, t): choose the parameters and start from B = b
ActionCall ==
  /\ ma_pc = "start"
  /\ LET p == set_approximation_parameter(ma_A, ma_t)
     IN m_deg' = p[1] /\ s' = p[2]
  /\ B' = ma_b /\ F' = ma_b /\ term' = ma_b
  /\ i_step' = 0 /\ j_term' = 0 /\ products' = 0
  /\ ma_pc' = "substep"
  /\ UNCHANGED <<ma_A, ma_b, ma_t, ma_ret, test_params>>
  /\ UNCHANGED nonMaVars

\* the head of the loop over the s sub-steps
BeginSubstep ==
  /\ ma_pc = "substep"
  /\ IF i_step < s
     THEN /\ F' = B /\ term' = B /\ j_term' = 0
          /\ ma_pc' = "series"
     ELSE /\ UNCHANGED <<F, term, j_term>>
          /\ ma_pc' = "return"
  /\ UNCHANGED <<ma_A, ma_b, ma_t, m_deg, s, B, i_step, products, ma_ret,
                 test_params>>
  /\ UNCHANGED nonMaVars

\* a variant of SeriesTerm that only the tolerance stops
SeriesTerm_uncapped ==
  /\ ma_pc = "series"
  /\ term' = VecScale(Norm(ma_t, s * (j_term + 1)), MatVec(ma_A, term))
  /\ F' = VecAdd(F, term')
  /\ j_term' = j_term + 1
  /\ products' = products + 1
  /\ ma_pc' = IF RLess(NormInf(term'), RMul(tol, NormInf(F')))
               THEN "endsub" ELSE "series"
  /\ UNCHANGED <<ma_A, ma_b, ma_t, m_deg, s, B, i_step, ma_ret, test_params>>
  /\ UNCHANGED nonMaVars

\* the next term (t A / s) term / (j + 1) of the series, added to the running
\* sum; the sub-step ends after m_deg terms, or earlier when the newest term
\* is below the tolerance relative to the running sum
SeriesTerm ==
  /\ ma_pc = "series"
  /\ IF j_term < m_deg
     THEN /\ term' = VecScale(Norm(ma_t, s * (j_term + 1)), MatVec(ma_A, term))
          /\ F' = VecAdd(F, term')
          /\ j_term' = j_term + 1
          /\ products' = products + 1
          /\ ma_pc' = IF RLess(NormInf(term'), RMul(tol, NormInf(F')))
                         \/ j_term' >= m_deg
                      THEN "endsub" ELSE "series"
     ELSE /\ UNCHANGED <<term, F, j_term, products>>
          /\ ma_pc' = "endsub"
  /\ UNCHANGED <<ma_A, ma_b, ma_t, m_deg, s, B, i_step, ma_ret, test_params>>
  /\ UNCHANGED nonMaVars

\* B := F for the next sub-step
EndSubstep ==
  /\ ma_pc = "endsub"
  /\ B' = F
  /\ i_step' = i_step + 1
  /\ ma_pc' = "substep"
  /\ UNCHANGED <<ma_A, ma_b, ma_t, m_deg, s, F, term, j_term, products, ma_ret,
                 test_params>>
  /\ UNCHANGED nonMaVars

\* return the final B
ActionReturn ==
  /\ ma_pc = "return"
  /\ ma_ret' = B
  /\ ma_pc' = "done"
  /\ UNCHANGED <<ma_A, ma_b, ma_t, m_deg, s, B, F, term, i_step, j_term,
                 products, test_params>>
  /\ UNCHANGED nonMaVars

NextAction ==
  \/ TestParams
  \/ ActionCall
  \/ BeginSubstep
  \/ SeriesTerm
  \/ EndSubstep
  \/ ActionReturn

SpecAction == InitAction /\ [][NextAction]_vars

\* every step of a call in progress is eventually taken: the call runs on one
\* thread to its end
SpecActionFair == SpecAction /\ WF_vars(NextAction)

C6_Bounds ==
  /\ j_term <= m_deg
  /\ i_step <= s
  /\ products <= m_deg * s
  /\ products <= m_deg * i_step + j_term
  /\ ma_pc = "done" => (i_step = s /\ ma_ret = B /\ B = F)

\* C6: action() terminates; it runs exactly s sub-steps of at most m_deg terms
\* each, the sum F of a sub-step is the B of the next, the value returned is
\* the B after the last sub-step, and at most m_deg * s products are made.
C6_Terminates ==
  /\ [](C6_Bounds)
  /\ [][ma_pc = "endsub" => (B' = F /\ i_step' = i_step + 1)]_vars
  /\ (ma_pc = "substep") ~> (ma_pc = "done")

\* a finished call of two or more sub-steps in which a sub-step stopped early
C6_Witness ==
  /\ ma_pc = "done"
  /\ s >= 2
  /\ m_deg >= 2
  /\ products > 0
  /\ products < m_deg * s

---------------------------------------------------------------------------
(* acosh on an arithmetic argument (prim/fun/acosh.hpp) *)

MaxX == 6

is_nan(a) == a.cls = "nan"

is_inf(a) == a.cls = "inf"

\* a >= low as the comparison of doubles decides it: false when a is NaN
greater_or_equal(a, low) ==
  CASE a.cls = "nan" -> FALSE
    [] a.cls = "inf" -> a.v[1] > 0
    [] OTHER -> ~RLess(a.v, low)

\* the exception check_greater_or_equal(function, name, a, low) raises, or
\* NoError when a >= low
check_greater_or_equal(function, name, a, low) ==
  IF greater_or_equal(a, low)
  THEN NoError
  ELSE [type |-> "domain_error", function |-> function, name |-> name,
        bound |-> low]

\* std::acosh of <cmath>: the inverse hyperbolic cosine stays a term
std_acosh(a) ==
  CASE a.cls = "nan" -> NaN
    [] a.cls = "inf" -> IF a.v[1] > 0 THEN Inf(1) ELSE NaN
    [] OTHER -> IF RLess(a.v, R(1)) THEN NaN ELSE [cls |-> "acosh", v |-> a.v]

\* a variant of acosh that checks the domain before it tests for NaN
acosh_check_first(a, win32) ==
  LET e == check_greater_or_equal("acosh", "x", a, R(1))
  IN IF e # NoError
     THEN [pc |-> "raised", ret |-> NoValue, err |-> e]
     ELSE IF is_nan(a)
          THEN [pc |-> "returned", ret |-> a, err |-> NoError]
          ELSE IF win32 /\ is_inf(a)
               THEN [pc |-> "returned", ret |-> a, err |-> NoError]
               ELSE [pc |-> "returned", ret |-> std_acosh(a), err |-> NoError]

\* acosh(const T x), T arithmetic; win32 tells whether _WIN32 is defined
acosh(a, win32) ==
  IF is_nan(a)
  THEN [pc |-> "returned", ret |-> a, err |-> NoError]
  ELSE LET e == check_greater_or_equal("acosh", "x", a, R(1))
       IN IF e # NoError
          THEN [pc |-> "raised", ret |-> NoValue, err |-> e]
          ELSE IF win32 /\ is_inf(a)
               THEN [pc |-> "returned", ret |-> a, err |-> NoError]
               ELSE [pc |-> "returned", ret |-> std_acosh(a), err |-> NoError]

\* the values of an arithmetic type: the integers, or the doubles (here the
\* halves, the infinities and NaN)
AcoshArgs(T) ==
  IF T = "int"
  THEN {Fin(R(n)) : n \in (-MaxX)..MaxX}
  ELSE {NaN, Inf(1), Inf(-1)} \cup {Fin(Norm(n, 2)) : n \in (-2 * MaxX)..(2 * MaxX)}

InitAcosh ==
  /\ ac_T \in {"int", "double"}
  /\ ac_x \in AcoshArgs(ac_T)
  /\ ac_win32 \in BOOLEAN
  /\ ac_pc = "call"
  /\ ac_ret = NoValue
  /\ ac_err = NoError
  /\ LogMixIdle /\ ActionIdle /\ MatFunIdle /\ TraitsIdle

AcoshCall ==
  /\ ac_pc = "call"
  /\ LET r == acosh(ac_x, ac_win32)
     IN /\ ac_pc' = r.pc
        /\ ac_ret' = r.ret
        /\ ac_err' = r.err
  /\ UNCHANGED <<ac_T, ac_x, ac_win32>>
  /\ UNCHANGED nonAcVars

NextAcosh == AcoshCall

SpecAcosh == InitAcosh /\ [][NextAcosh]_vars

\* x < 1 for a double that is not NaN
BelowOne(a) ==
  \/ a.cls = "inf" /\ a.v[1] < 0
  \/ a.cls = "fin" /\ a.v[1] < a.v[2]

\* C8: acosh of NaN returns NaN and raises nothing; of any other x < 1 it
\* raises a domain error that names the argument x and the bound 1, and
\* returns nothing; of any other x it returns the inverse hyperbolic cosine.
C8_AcoshNaNAndDomain ==
  ac_pc \in {"returned", "raised"} =>
    CASE ac_x.cls = "nan" ->
           ac_pc = "returned" /\ ac_ret = NaN /\ ac_err = NoError
      [] ac_x.cls # "nan" /\ BelowOne(ac_x) ->
           /\ ac_pc = "raised"
           /\ ac_err.type = "domain_error"
           /\ ac_err.function = "acosh"
           /\ ac_err.name = "x"
           /\ ac_err.bound = R(1)
           /\ ac_ret = NoValue
      [] OTHER ->
           /\ ac_pc = "returned"
           /\ ac_err = NoError
           /\ ac_ret = IF ac_x.cls = "inf" THEN Inf(1)
                       ELSE [cls |-> "acosh", v |-> ac_x.v]

\* acosh was called with NaN and has returned
C8_Witness ==
  /\ ac_pc = "returned"
  /\ ac_x = NaN
  /\ ac_ret = NaN

---------------------------------------------------------------------------
(* cholesky_corr_constrain (both overloads), eigenvectors and              *)
(* trace_inv_quad_form_ldlt.  The entries of vectors and matrices are      *)
(* terms: <<"const", n>>, <<"corr_constrain", v>>, <<"square", t>>,        *)
(* <<"sqrt", t>>, <<"add", t, u>>, <<"sub", t, u>>, <<"mul", t, u>>,       *)
(* <<"log1m", t>>, <<"half", t>>.  Rows and columns count from 0.          *)

MaxK == 4
MaxY == 2

Const(n) == <<"const", n>>

square(t) == <<"square", t>>

\* sqrt(1.0 - t)
sqrt_1m(t) == <<"sqrt", <<"sub", Const(1), t>>>>

\* 0.5 * log1m(t)
half_log1m(t) == <<"half", <<"log1m", t>>>>

\* the exception check_size_match(function, name_i, i, name_j, j) raises, or
\* NoError when i = j
check_size_match(function, name_i, i, name_j, j) ==
  IF i = j
  THEN NoError
  ELSE [type |-> "invalid_argument", function |-> function, name |-> name_i,
        bound |-> <<j, 1>>]

\* the exception check_nonzero_size(function, name, m) raises, or NoError
\* when m has at least one element
check_nonzero_size(function, name, shape) ==
  IF shape[1] * shape[2] > 0
  THEN NoError
  ELSE [type |-> "invalid_argument", function |-> function, name |-> name,
        bound |-> <<0, 1>>]

\* the exception check_square(function, name, m) raises, or NoError
check_square(function, name, shape) ==
  IF shape[1] = shape[2]
  THEN NoError
  ELSE [type |-> "invalid_argument", function |-> function, name |-> name,
        bound |-> <<shape[1], 1>>]

\* corr_constrain(y): every element of y mapped into (-1, 1)
corr_constrain(yy) == [n \in 1..Len(yy) |-> <<"corr_constrain", yy[n]>>]

\* corr_constrain(y, lp): the same vector, and the log Jacobian of the map
\* added to lp
corr_constrain_lp(yy, lp0) ==
  [z |-> corr_constrain(yy),
   lp |-> Append(lp0, <<"corr_constrain_lp", Len(yy)>>)]

\* Matrix x(K, K) for K = 0
EmptyMatrix == [shape |-> <<0, 0>>, coeff |-> <<>>]

\* Matrix x(K, K) followed by x.setZero()
setZero(n) ==
  [shape |-> <<n, n>>,
   coeff |-> [i \in 0..(n - 1) |-> [j \in 0..(n - 1) |-> Const(0)]]]

\* x.coeffRef(i, j) = t
coeffRef(xx, i, j, t) == [xx EXCEPT !.coeff[i][j] = t]

\* for (int j = 1; j < i; ++j) of the overload without lp;
\* st = [x, k, sum_sqs]
RECURSIVE InnerLoop(_, _, _, _)
InnerLoop(st, zz, i, j) ==
  IF j < i
  THEN LET xij == <<"mul", zz[st.k + 1], sqrt_1m(st.sum_sqs)>>
       IN InnerLoop([x |-> coeffRef(st.x, i, j, xij),
                     k |-> st.k + 1,
                     sum_sqs |-> <<"add", st.sum_sqs, square(xij)>>],
                    zz, i, j + 1)
  ELSE st

\* for (int i = 1; i < K; ++i) of the overload without lp
RECURSIVE OuterLoop(_, _, _, _)
OuterLoop(st, zz, KK, i) ==
  IF i < KK
  THEN LET xi0 == zz[st.k + 1]
           st1 == [x |-> coeffRef(st.x, i, 0, xi0),
                   k |-> st.k + 1,
                   sum_sqs |-> square(xi0)]
           st2 == InnerLoop(st1, zz, i, 1)
           st3 == [st2 EXCEPT !.x = coeffRef(st2.x, i, i, sqrt_1m(st2.sum_sqs))]
       IN OuterLoop(st3, zz, KK, i + 1)
  ELSE st

\* cholesky_corr_constrain(const EigVec& y, int K)
cholesky_corr_constrain(yy, KK) ==
  LET k_choose_2 == (KK * (KK - 1)) \div 2
      e == check_size_match("cholesky_corr_constrain", "y.size()", Len(yy),
                            "k_choose_2", k_choose_2)
  IN IF e # NoError
     THEN [pc |-> "raised", x |-> NoMatrix, z |-> NoVector, err |-> e]
     ELSE LET zz == corr_constrain(yy)
          IN IF KK = 0
             THEN [pc |-> "returned", x |-> EmptyMatrix, z |-> zz,
                   err |-> NoError]
             ELSE LET x0 == coeffRef(setZero(KK), 0, 0, Const(1))
                      st == OuterLoop([x |-> x0, k |-> 0, sum_sqs |-> Const(0)],
                                      zz, KK, 1)
                  IN [pc |-> "returned", x |-> st.x, z |-> zz, err |-> NoError]

\* a variant of the inner loop with lp that has drifted from the one
\* without: sum_sqs is updated before the coefficient is computed
RECURSIVE InnerLoop_lp_drifted(_, _, _, _)
InnerLoop_lp_drifted(st, zz, i, j) ==
  IF j < i
  THEN LET lp1 == Append(st.lp, half_log1m(st.sum_sqs))
           sum1 == <<"add", st.sum_sqs, square(zz[st.k + 1])>>
           xij == <<"mul", zz[st.k + 1], sqrt_1m(sum1)>>
       IN InnerLoop_lp_drifted([x |-> coeffRef(st.x, i, j, xij),
                                k |-> st.k + 1,
                                sum_sqs |-> sum1,
                                lp |-> lp1],
                               zz, i, j + 1)
  ELSE st

\* for (int j = 1; j < i; ++j) of the overload with lp;
\* st = [x, k, sum_sqs, lp]
RECURSIVE InnerLoop_lp(_, _, _, _)
InnerLoop_lp(st, zz, i, j) ==
  IF j < i
  THEN LET lp1 == Append(st.lp, half_log1m(st.sum_sqs))
           xij == <<"mul", zz[st.k + 1], sqrt_1m(st.sum_sqs)>>
       IN InnerLoop_lp([x |-> coeffRef(st.x, i, j, xij),
                        k |-> st.k + 1,
                        sum_sqs |-> <<"add", st.sum_sqs, square(xij)>>,
                        lp |-> lp1],
                       zz, i, j + 1)
  ELSE st

\* for (int i = 1; i < K; ++i) of the overload with lp
RECURSIVE OuterLoop_lp(_, _, _, _)
OuterLoop_lp(st, zz, KK, i) ==
  IF i < KK
  THEN LET xi0 == zz[st.k + 1]
           st1 == [x |-> coeffRef(st.x, i, 0, xi0),
                   k |-> st.k + 1,
                   sum_sqs |-> square(xi0),
                   lp |-> st.lp]
           st2 == InnerLoop_lp(st1, zz, i, 1)
           st3 == [st2 EXCEPT !.x = coeffRef(st2.x, i, i, sqrt_1m(st2.sum_sqs))]
       IN OuterLoop_lp(st3, zz, KK, i + 1)
  ELSE st

\* a variant of the overload with lp that constrains y before it checks the
\* size
cholesky_corr_constrain_lp_check_late(yy, KK, lp0) ==
  LET k_choose_2 == (KK * (KK - 1)) \div 2
      cc == corr_constrain_lp(yy, lp0)
      e == check_size_match("cholesky_corr_constrain", "y.size()", Len(yy),
                            "k_choose_2", k_choose_2)
  IN IF e # NoError
     THEN [pc |-> "raised", x |-> NoMatrix, z |-> cc.z, lp |-> cc.lp,
           err |-> e]
     ELSE IF KK = 0
          THEN [pc |-> "returned", x |-> EmptyMatrix, z |-> cc.z,
                lp |-> cc.lp, err |-> NoError]
          ELSE LET x0 == coeffRef(setZero(KK), 0, 0, Const(1))
                   st == OuterLoop_lp([x |-> x0, k |-> 0,
                                       sum_sqs |-> Const(0), lp |-> cc.lp],
                                      cc.z, KK, 1)
               IN [pc |-> "returned", x |-> st.x, z |-> cc.z, lp |-> st.lp,
                   err |-> NoError]

\* cholesky_corr_constrain(const EigVec& y, int K, scalar_type_t<EigVec>& lp)
cholesky_corr_constrain_lp(yy, KK, lp0) ==
  LET k_choose_2 == (KK * (KK - 1)) \div 2
      e == check_size_match("cholesky_corr_constrain", "y.size()", Len(yy),
                            "k_choose_2", k_choose_2)
  IN IF e # NoError
     THEN [pc |-> "raised", x |-> NoMatrix, z |-> NoVector, lp |-> lp0,
           err |-> e]
     ELSE LET cc == corr_constrain_lp(yy, lp0)
          IN IF KK = 0
             THEN [pc |-> "returned", x |-> EmptyMatrix, z |-> cc.z,
                   lp |-> cc.lp, err |-> NoError]
             ELSE LET x0 == coeffRef(setZero(KK), 0, 0, Const(1))
                      st == OuterLoop_lp([x |-> x0, k |-> 0,
                                          sum_sqs |-> Const(0), lp |-> cc.lp],
                                         cc.z, KK, 1)
                  IN [pc |-> "returned", x |-> st.x, z |-> cc.z,
                      lp |-> st.lp, err |-> NoError]

\* eigenvectors(const EigMat& m); the solver's result is kept as a term
eigenvectors(shape) ==
  LET e1 == check_nonzero_size("eigenvectors", "m", shape)
      e2 == check_square("eigenvectors", "m", shape)
  IN IF e1 # NoError
     THEN [pc |-> "raised", x |-> NoMatrix, err |-> e1]
     ELSE IF e2 # NoError
          THEN [pc |-> "raised", x |-> NoMatrix, err |-> e2]
          ELSE [pc |-> "returned",
                x |-> [shape |-> <<shape[1], shape[1]>>,
                       coeff |-> <<<<"EigenSolver", shape[1]>>>>],
                err |-> NoError]

\* trace_inv_quad_form_ldlt(A, B) for the factor A of a square matrix: the
\* rows of B must be as many as those of A; empty arguments give an empty
\* result
trace_inv_quad_form_ldlt(shapeA, shapeB) ==
  LET e == check_size_match("trace_inv_quad_form_ldlt", "A.rows()", shapeA[1],
                            "B.rows()", shapeB[1])
  IN IF e # NoError
     THEN [pc |-> "raised", x |-> NoMatrix, err |-> e]
     ELSE IF shapeA[1] = 0
          THEN [pc |-> "returned", x |-> EmptyMatrix, err |-> NoError]
          ELSE [pc |-> "returned",
                x |-> [shape |-> <<1, 1>>,
                       coeff |-> <<<<"trace", shapeA[1], shapeB[2]>>>>],
                err |-> NoError]

\* the vectors y: up to as many elements as the largest K needs, the
\* elements of one vector all different so that each can be told apart in
\* the result
Ys ==
  {[n \in 1..len |-> MaxY * (n - 1) + v] :
     len \in 0..((MaxK * (MaxK - 1)) \div 2), v \in 1..MaxY}

\* what the caller has accumulated in lp before the call
Lps == {<<>>, <<Const(1)>>}

Shapes == (0..MaxK) \X (0..MaxK)

InitMatFun ==
  /\ mf_fn \in {"cholesky_corr_constrain", "cholesky_corr_constrain_lp",
                "eigenvectors", "trace_inv_quad_form_ldlt"}
  /\ mf_pc = "call"
  /\ K \in IF mf_fn \in {"cholesky_corr_constrain", "cholesky_corr_constrain_lp"}
           THEN 0..MaxK ELSE {0}
  /\ y \in IF mf_fn \in {"cholesky_corr_constrain", "cholesky_corr_constrain_lp"}
           THEN Ys ELSE {<<>>}
  /\ lp \in IF mf_fn = "cholesky_corr_constrain_lp" THEN Lps ELSE {<<>>}
  /\ mf_m \in CASE mf_fn = "eigenvectors" -> Shapes
                [] mf_fn = "trace_inv_quad_form_ldlt" ->
                     {<<n, n>> : n \in 0..MaxK}
                [] OTHER -> {<<>>}
  /\ mf_B \in IF mf_fn = "trace_inv_quad_form_ldlt" THEN Shapes ELSE {<<>>}
  /\ z = NoVector
  /\ x = NoMatrix
  /\ mf_err = NoError
  /\ LogMixIdle /\ ActionIdle /\ AcoshIdle /\ TraitsIdle

CholeskyCorrConstrain ==
  /\ mf_fn = "cholesky_corr_constrain"
  /\ mf_pc = "call"
  /\ LET r == cholesky_corr_constrain(y, K)
     IN /\ mf_pc' = r.pc
        /\ x' = r.x
        /\ z' = r.z
        /\ mf_err' = r.err
  /\ UNCHANGED <<mf_fn, K, y, lp, mf_m, mf_B>>
  /\ UNCHANGED nonMfVars

CholeskyCorrConstrainLp ==
  /\ mf_fn = "cholesky_corr_constrain_lp"
  /\ mf_pc = "call"
  /\ LET r == cholesky_corr_constrain_lp(y, K, lp)
     IN /\ mf_pc' = r.pc
        /\ x' = r.x
        /\ z' = r.z
        /\ lp' = r.lp
        /\ mf_err' = r.err
  /\ UNCHANGED <<mf_fn, K, y, mf_m, mf_B>>
  /\ UNCHANGED nonMfVars

Eigenvectors ==
  /\ mf_fn = "eigenvectors"
  /\ mf_pc = "call"
  /\ LET r == eigenvectors(mf_m)
     IN /\ mf_pc' = r.pc
        /\ x' = r.x
        /\ mf_err' = r.err
  /\ UNCHANGED <<mf_fn, K, y, lp, z, mf_m, mf_B>>
  /\ UNCHANGED nonMfVars

TraceInvQuadFormLdlt ==
  /\ mf_fn = "trace_inv_quad_form_ldlt"
  /\ mf_pc = "call"
  /\ LET r == trace_inv_quad_form_ldlt(mf_m, mf_B)
     IN /\ mf_pc' = r.pc
        /\ x' = r.x
        /\ mf_err' = r.err
  /\ UNCHANGED <<mf_fn, K, y, lp, z, mf_m, mf_B>>
  /\ UNCHANGED nonMfVars

NextMatFun ==
  \/ CholeskyCorrConstrain
  \/ CholeskyCorrConstrainLp
  \/ Eigenvectors
  \/ TraceInvQuadFormLdlt

SpecMatFun == InitMatFun /\ [][NextMatFun]_vars

\* the call in progress was given arguments of size zero
ZeroSizedInput ==
  \/ mf_fn = "cholesky_corr_constrain" /\ K = 0 /\ y = <<>>
  \/ mf_fn = "trace_inv_quad_form_ldlt" /\ mf_m = <<0, 0>> /\ mf_B[1] = 0
  \/ mf_fn = "eigenvectors" /\ mf_m = <<0, 0>>

\* C9: cholesky_corr_constrain(y, K) with K = 0 and empty y,
\* trace_inv_quad_form_ldlt on 0x0 inputs and eigenvectors on a 0x0 matrix
\* return a result of size zero and raise nothing.
C9_ZeroSizeReturnsEmpty ==
  (mf_pc \in {"returned", "raised"} /\ ZeroSizedInput) =>
    /\ mf_pc = "returned"
    /\ mf_err = NoError
    /\ x.shape[1] * x.shape[2] = 0

\* C10: cholesky_corr_constrain(y, K, lp) with y.size() # K * (K - 1) / 2
\* raises the size-mismatch error without transforming y, without building a
\* matrix and without changing the caller's lp.
C10_SizeMismatchNoWork ==
  [][(/\ mf_fn = "cholesky_corr_constrain_lp"
      /\ mf_pc = "call"
      /\ Len(y) # (K * (K - 1)) \div 2)
     => (/\ mf_pc' = "raised"
         /\ mf_err'.type = "invalid_argument"
         /\ mf_err'.function = "cholesky_corr_constrain"
         /\ mf_err'.name = "y.size()"
         /\ lp' = lp
         /\ z' = NoVector
         /\ x' = NoMatrix)]_vars

\* the overload with lp raised on a non-empty y of the wrong size, called by
\* a caller that had accumulated something in lp
C10_Witness ==
  /\ mf_fn = "cholesky_corr_constrain_lp"
  /\ mf_pc = "raised"
  /\ K > 1
  /\ Len(y) > 0
  /\ Len(y) # (K * (K - 1)) \div 2
  /\ lp = <<Const(1)>>

\* the element of y that the coefficient t was computed from: t is z[k] in
\* column 0 and z[k] * sqrt(1 - sum_sqs) in the other columns
ElementOfY(t) == IF t[1] = "mul" THEN t[2][2] ELSE t[2]

\* the strictly lower-triangular positions <<i, j>>, i > j, of an n x n matrix
StrictlyLower(n) == {p \in (0..(n - 1)) \X (0..(n - 1)) : p[1] > p[2]}

\* the n-th (from 1) position of the strictly lower triangle counted column
\* by column
ColumnMajorPosition(size, n) ==
  CHOOSE p \in StrictlyLower(size) :
    Cardinality({q \in StrictlyLower(size) :
                   q[2] < p[2] \/ (q[2] = p[2] /\ q[1] < p[1])}) = n - 1

\* C14: the n-th element of y determines the n-th strictly lower-triangular
\* position of the result, counted in column-major order.
C14_ColumnMajor ==
  (/\ mf_fn \in {"cholesky_corr_constrain", "cholesky_corr_constrain_lp"}
   /\ mf_pc = "returned") =>
    \A n \in 1..Len(y) :
      LET p == ColumnMajorPosition(K, n)
      IN ElementOfY(x.coeff[p[1]][p[2]]) = y[n]

\* the result the overload without lp gives for the arguments of the call
\* in progress
WithoutLp == cholesky_corr_constrain(y, K)

\* C16: for the same y and K the overload with lp returns the matrix the
\* overload without lp returns, computed from the same z, and raises when
\* that one raises; the only other effect is that lp has grown.
C16_SameMatrix ==
  /\ (mf_fn = "cholesky_corr_constrain_lp" /\ mf_pc \in {"returned", "raised"})
       => /\ mf_pc = WithoutLp.pc
          /\ x = WithoutLp.x
          /\ z = WithoutLp.z
          /\ mf_err = WithoutLp.err
          /\ \E added \in 0..(Len(lp)) :
               SubSeq(lp, 1, Len(lp) - added) \in Lps
  /\ (mf_fn = "cholesky_corr_constrain" /\ mf_pc \in {"returned", "raised"})
       => lp = <<>>

\* the overload with lp returned a matrix large enough for its inner loop to
\* have run and to have added to lp
C16_Witness ==
  /\ mf_fn = "cholesky_corr_constrain_lp"
  /\ mf_pc = "returned"
  /\ K = MaxK
  /\ Len(lp) > 2
  /\ x.shape = <<K, K>>

---------------------------------------------------------------------------
(* ref_type_if<Condition, T> (prim/meta/ref_type.hpp) *)

\* the Eigen class templates: a plain matrix, a map of a buffer, a block of
\* whole columns, one row of a column-major matrix, and two lazy expressions
EigenTmpls ==
  {"Eigen::Matrix", "Eigen::Map", "Eigen::Block<cols>", "Eigen::Block<row>",
   "Eigen::CwiseBinaryOp", "Eigen::Product"}

\* the types that are no Eigen types
NonEigenTypes ==
  {<<"", "double">>, <<"", "int">>, <<"std::vector", "double">>,
   <<"var_value", "double">>, <<"fvar", "double">>}

RefKinds == {"none", "lvalue", "rvalue"}

Type(tmpl, arg, ref, const) ==
  [tmpl |-> tmpl, arg |-> arg, ref |-> ref, const |-> const]

\* the type arguments T of ref_type_if
RefTypeArgs ==
  {Type(t, a, r, c) : t \in EigenTmpls, a \in {"double", "var"},
                      r \in RefKinds, c \in BOOLEAN}
  \cup {Type(p[1], p[2], r, c) : p \in NonEigenTypes, r \in RefKinds,
                                 c \in BOOLEAN}

decay_t(T) == [T EXCEPT !.ref = "none", !.const = FALSE]

is_eigen(T) == T.tmpl \in EigenTmpls

is_rvalue_reference(T) == T.ref = "rvalue"

remove_reference_t(T) == [T EXCEPT !.ref = "none"]

\* const T&: const is dropped on a reference type and the references collapse
\* to an lvalue reference
const_T_ref(T) ==
  IF T.ref = "none"
  THEN [T EXCEPT !.ref = "lvalue", !.const = TRUE]
  ELSE [T EXCEPT !.ref = "lvalue"]

\* plain_type_t<T>: the matrix type the expression evaluates to
plain_type_t(T) == Type("Eigen::Matrix", T.arg, "none", FALSE)

\* Eigen::internal::traits<Eigen::Ref<P>>::match<D>::MatchAtCompileTime: D can
\* be addressed as a P without being evaluated or copied
MatchAtCompileTime(P, D) ==
  /\ D.arg = P.arg
  /\ D.tmpl \in {"Eigen::Matrix", "Eigen::Map", "Eigen::Block<cols>"}

\* a variant of ref_type_if whose primary template ignores Condition
ref_type_if_unconditional(Condition, T) ==
  IF ~is_eigen(T)
  THEN IF is_rvalue_reference(T)
       THEN [type |-> T, selected |-> "T"]
       ELSE [type |-> const_T_ref(T), selected |-> "const T&"]
  ELSE LET T_plain == plain_type_t(T)
           T_optionally_ref ==
             IF is_rvalue_reference(T) THEN remove_reference_t(T)
             ELSE const_T_ref(T)
       IN IF MatchAtCompileTime(decay_t(T_plain), decay_t(T))
          THEN [type |-> T_optionally_ref, selected |-> "T_optionally_ref"]
          ELSE [type |-> T_plain, selected |-> "T_plain"]

\* ref_type_if<Condition, T>::type: the specialization for T that is no Eigen
\* type, else the primary template
ref_type_if(Condition, T) ==
  IF ~is_eigen(T)
  THEN IF is_rvalue_reference(T)
       THEN [type |-> T, selected |-> "T"]
       ELSE [type |-> const_T_ref(T), selected |-> "const T&"]
  ELSE LET T_plain == plain_type_t(T)
           T_optionally_ref ==
             IF is_rvalue_reference(T) THEN remove_reference_t(T)
             ELSE const_T_ref(T)
       IN IF MatchAtCompileTime(decay_t(T_plain), decay_t(T)) \/ ~Condition
          THEN [type |-> T_optionally_ref, selected |-> "T_optionally_ref"]
          ELSE [type |-> T_plain, selected |-> "T_plain"]

InitRefType ==
  /\ mt_fn = "ref_type_if"
  /\ mt_T \in RefTypeArgs
  /\ mt_Condition \in BOOLEAN
  /\ mt_pc = "instantiate"
  /\ mt_type = NoType
  /\ mt_selected = "none"
  /\ mt_value = FALSE
  /\ LogMixIdle /\ ActionIdle /\ AcoshIdle /\ MatFunIdle

RefTypeIf ==
  /\ mt_fn = "ref_type_if"
  /\ mt_pc = "instantiate"
  /\ LET r == ref_type_if(mt_Condition, mt_T)
     IN /\ mt_type' = r.type
        /\ mt_selected' = r.selected
  /\ mt_pc' = "done"
  /\ UNCHANGED <<mt_fn, mt_T, mt_Condition, mt_value>>
  /\ UNCHANGED nonMtVars

NextRefType == RefTypeIf

SpecRefType == InitRefType /\ [][NextRefType]_vars

\* what initializing a variable of type V from an argument of type T does:
\* a reference binds; a value of another class evaluates the argument; a
\* value of the same class moves from an rvalue and copies anything else
Evaluations(T, V) == IF V.ref = "none" /\ V.tmpl # T.tmpl THEN 1 ELSE 0

Copies(T, V) ==
  IF V.ref = "none" /\ V.tmpl = T.tmpl /\ T.ref # "rvalue" THEN 1 ELSE 0

\* C11: the plain type is selected exactly for an Eigen T with Condition true
\* that does not match Eigen::Ref; otherwise an lvalue T is bound by an lvalue
\* reference to the same class; an argument is evaluated at most once, never
\* with Condition false, and a matching (directly addressable) one is never
\* copied.
C11_PlainIffEigenConditionNoMatch ==
  mt_pc = "done" =>
    LET match == MatchAtCompileTime(plain_type_t(mt_T), decay_t(mt_T))
        plain == is_eigen(mt_T) /\ mt_Condition /\ ~match
    IN /\ (mt_selected = "T_plain") <=> plain
       /\ plain => mt_type = Type("Eigen::Matrix", mt_T.arg, "none", FALSE)
       /\ (~plain /\ mt_T.ref # "rvalue") =>
            /\ mt_type.ref = "lvalue"
            /\ mt_type.tmpl = mt_T.tmpl
            /\ mt_type.arg = mt_T.arg
       /\ Evaluations(mt_T, mt_type) <= 1
       /\ ~mt_Condition => Evaluations(mt_T, mt_type) = 0
       /\ (is_eigen(mt_T) /\ match) => Copies(mt_T, mt_type) = 0

\* a lazy expression passed as an lvalue with Condition true was given its
\* plain type
C11_Witness ==
  /\ mt_pc = "done"
  /\ mt_T.tmpl = "Eigen::CwiseBinaryOp"
  /\ mt_T.ref = "lvalue"
  /\ mt_Condition
  /\ mt_selected = "T_plain"
  /\ mt_type.tmpl = "Eigen::Matrix"

\* how the selected type holds the argument
BindingMode ==
  CASE mt_type.ref = "lvalue" -> "borrowed reference"
    [] mt_type.ref = "rvalue" -> "reference to the temporary"
    [] mt_selected = "T_plain" -> "owned materialized value"
    [] OTHER -> "owned rvalue"

\* C12: for T an rvalue reference, Eigen or not, the selected type is no
\* reference, and every argument is held in one of the three modes borrowed
\* reference, owned materialized value, owned rvalue.
C12_RvalueTakesOwnership ==
  mt_pc = "done" =>
    /\ mt_T.ref = "rvalue" => mt_type.ref = "none"
    /\ BindingMode \in {"borrowed reference", "owned materialized value",
                        "owned rvalue"}

---------------------------------------------------------------------------
(* is_stan_scalar<T> (prim/meta/is_stan_scalar.hpp) *)

\* the built-in arithmetic types
ArithmeticNames == {"double", "float", "int", "bool"}

\* the type a template argument names
ArgType(name) ==
  CASE name \in ArithmeticNames -> Type("", name, "none", FALSE)
    [] name = "var" -> Type("var_value", "double", "none", FALSE)
    [] name = "fvar<double>" -> Type("fvar", "double", "none", FALSE)
    [] name = "Eigen::MatrixXd" -> Type("Eigen::Matrix", "double", "none", FALSE)
    [] OTHER -> Type("", name, "none", FALSE)

\* the class templates that are containers
ContainerTmpls == {"std::vector", "Eigen::Matrix"}

\* the types is_stan_scalar is asked about, without reference and const
ScalarTraitTypes ==
  {<<"", "double">>, <<"", "float">>, <<"", "int">>, <<"", "bool">>,
   <<"", "std::string">>, <<"pointer", "double">>,
   <<"var_value", "double">>, <<"var_value", "float">>,
   <<"var_value", "Eigen::MatrixXd">>,
   <<"fvar", "double">>, <<"fvar", "fvar<double>">>, <<"fvar", "var">>,
   <<"std::complex", "double">>, <<"std::complex", "var">>,
   <<"std::complex", "fvar<double>">>,
   <<"std::vector", "double">>, <<"std::vector", "var">>,
   <<"Eigen::Matrix", "double">>, <<"Eigen::Matrix", "var">>,
   <<"Eigen::Matrix", "fvar<double>">>}

StanScalarArgs ==
  {Type(p[1], p[2], r, c) : p \in ScalarTraitTypes, r \in RefKinds,
                            c \in BOOLEAN}

\* std::is_arithmetic<U>: U is a built-in arithmetic type, const or not; a
\* reference is not
std_is_arithmetic(U) ==
  U.ref = "none" /\ U.tmpl = "" /\ U.arg \in ArithmeticNames

\* is_var<U>, is_fvar<U>, is_complex<U> for a decayed U
is_var(U) == U.ref = "none" /\ ~U.const /\ U.tmpl = "var_value"

is_fvar_t(U) == U.ref = "none" /\ ~U.const /\ U.tmpl = "fvar"

is_complex(U) == U.ref = "none" /\ ~U.const /\ U.tmpl = "std::complex"

\* value_type_t<T>: what a var holds, the element type of a container, the
\* pointee of a pointer, else the decayed T
value_type_t(T) ==
  IF T.tmpl \in {"var_value", "pointer"} \cup ContainerTmpls
  THEN ArgType(T.arg)
  ELSE decay_t(T)

\* a variant of is_stan_scalar that accepts every var
is_stan_scalar_every_var(T) ==
  \/ is_var(decay_t(T))
  \/ is_fvar_t(decay_t(T))
  \/ std_is_arithmetic(decay_t(T))
  \/ is_complex(decay_t(T))

\* is_stan_scalar<T>::value
is_stan_scalar(T) ==
  \/ (is_var(decay_t(T)) /\ std_is_arithmetic(value_type_t(T)))
  \/ is_fvar_t(decay_t(T))
  \/ std_is_arithmetic(decay_t(T))
  \/ is_complex(decay_t(T))

InitStanScalar ==
  /\ mt_fn = "is_stan_scalar"
  /\ mt_T \in StanScalarArgs
  /\ mt_Condition = FALSE
  /\ mt_pc = "instantiate"
  /\ mt_type = NoType
  /\ mt_selected = "none"
  /\ mt_value = FALSE
  /\ LogMixIdle /\ ActionIdle /\ AcoshIdle /\ MatFunIdle

IsStanScalar ==
  /\ mt_fn = "is_stan_scalar"
  /\ mt_pc = "instantiate"
  /\ mt_value' = is_stan_scalar(mt_T)
  /\ mt_pc' = "done"
  /\ UNCHANGED <<mt_fn, mt_T, mt_Condition, mt_type, mt_selected>>
  /\ UNCHANGED nonMtVars

NextStanScalar == IsStanScalar

SpecStanScalar == InitStanScalar /\ [][NextStanScalar]_vars

\* the scalar kinds of the type with class template t and argument a
ScalarKinds(t, a) ==
  {k \in {"Arithmetic", "Complex", "ForwardAD", "ReverseAD"} :
     \/ k = "Arithmetic" /\ t = "" /\ a \in ArithmeticNames
     \/ k = "Complex" /\ t = "std::complex"
     \/ k = "ForwardAD" /\ t = "fvar"
     \/ k = "ReverseAD" /\ t = "var_value" /\ a \in ArithmeticNames}

\* C13: is_stan_scalar<T> is true exactly when the decayed T is of one of
\* the four scalar kinds, no type is of two kinds, and it is false of every
\* container and of a var whose value type is not arithmetic.
C13_FourScalarKinds ==
  mt_pc = "done" =>
    LET kinds_of_T == ScalarKinds(mt_T.tmpl, mt_T.arg)
    IN /\ mt_value <=> (kinds_of_T # {})
       /\ Cardinality(kinds_of_T) <= 1
       /\ mt_T.tmpl \in ContainerTmpls => ~mt_value
       /\ (mt_T.tmpl = "var_value" /\ mt_T.arg \notin ArithmeticNames)
            => ~mt_value

\* the trait was asked about a const reference to a var of a double
C13_Witness ==
  /\ mt_pc = "done"
  /\ mt_T = Type("var_value", "double", "lvalue", TRUE)
  /\ mt_value

---------------------------------------------------------------------------
\* log_mix: the coefficient of lambda2's tangent.

\* The partial with respect to lambda2 as the header's comment writes it,
\* with theta (not 1 - theta) in the numerator.
d_dlambda2_in_header(th, l1, l2) ==
  RDiv(RMul(th, Exp(l2)), Denominator(th, l1, l2))

\* The returned derivative is lambda2's tangent times its coefficient when
\* every other forward-mode argument has tangent zero.
OnlyLambda2Moves ==
  /\ lm_pc = "done"
  /\ is_fvar(kinds[3])
  /\ is_fvar(kinds[1]) => theta.d = R(0)
  /\ is_fvar(kinds[2]) => lambda1.d = R(0)

---------------------------------------------------------------------------
\* log_mix: the slots the helper writes.

\* the argument types and values of the helper call an overload has made:
\* (theta, lambda1, lambda2) in the if branch and in a direct call,
\* (1.0 - theta, lambda2, lambda1) in the else branch
Swapped == lm_pc = "done" /\ branch = "else"

HelperKinds ==
  IF Swapped THEN <<kinds[1], kinds[3], kinds[2]>> ELSE kinds

HelperArgs ==
  IF Swapped THEN <<RSub(R(1), theta.val), lambda2.val, lambda1.val>>
  ELSE <<theta.val, lambda1.val, lambda2.val>>

\* the partial of log_mix with respect to the i-th argument of that call
HelperPartial(i) ==
  IF i = 1 THEN d_dtheta(HelperArgs[1], HelperArgs[2], HelperArgs[3])
  ELSE IF i = 2 THEN d_dlambda1(HelperArgs[1], HelperArgs[2], HelperArgs[3])
  ELSE d_dlambda2(HelperArgs[1], HelperArgs[2], HelperArgs[3])

\* the arguments of that call whose type is the promoted type, and the
\* index such an argument's slot has when slots are handed out in order
Promoted ==
  {i \in 1..3 :
     HelperKinds[i]
       = promote_args(HelperKinds[1], HelperKinds[2], HelperKinds[3])}

HelperSlot(i) == Cardinality({j \in Promoted : j < i})

\* C17: in every overload and either branch, and in a direct call, the
\* helper writes one slot per argument whose type is the promoted type, at
\* the indices 0, 1, ... in the order theta, lambda1, lambda2 of its
\* parameters; the number of writes is the declared length of the array
\* (3, 2 or 1, the number of fvar arguments), so every write is inside the
\* array and no slot is left unwritten.
C17_SlotsWritten ==
  lm_pc \in {"done", "helper_done"} =>
    LET N == Len(partial_deriv_array)
    IN /\ N = NFvar(kinds)
       /\ N \in 1..3
       /\ Cardinality(Promoted) = N
       /\ offsets = [n \in 1..N |-> n - 1]
       /\ \A n \in 1..Len(offsets) : offsets[n] < N
       /\ \A n \in 1..N : partial_deriv_array[n] # Uninit
       /\ \A i \in Promoted :
            partial_deriv_array[HelperSlot(i) + 1] = HelperPartial(i)

\* An overload with two fvar arguments, one of them lambda2, has returned
\* from its else branch, where the helper was called with the lambdas
\* exchanged, and both slots were written.
C17_Witness ==
  /\ lm_pc = "done"
  /\ branch = "else"
  /\ kinds = <<"fvar<double>", "double", "fvar<double>">>
  /\ Len(partial_deriv_array) = 2
  /\ offsets = <<0, 1>>
  /\ partial_deriv_array[2] = HelperPartial(2)
  /\ lambda1.val < lambda2.val

---------------------------------------------------------------------------
\* log_mix: the two branches of an overload.

\* the tangent of the i-th argument (read only of fvar arguments)
TangentOf(i) ==
  IF i = 1 THEN theta.d ELSE IF i = 2 THEN lambda1.d ELSE lambda2.d

\* The derivative the if branch of the matching overload builds from the
\* current arguments: the helper is called with (theta, lambda1, lambda2) and
\* each fvar argument's tangent multiplies its slot, slots in argument order.
IfBranchDerivative ==
  LET h == log_mix_partial_helper(theta.val, lambda1.val, lambda2.val,
                                  kinds[1], kinds[2], kinds[3], NFvar(kinds))
      p == h.partials_array
      Term(i) == IF is_fvar(kinds[i]) THEN RMul(TangentOf(i), p[SlotOf(i)])
                 ELSE R(0)
  IN RAdd(RAdd(Term(1), Term(2)), Term(3))

\* The derivative the else branch of the matching overload builds from the
\* current arguments: the helper is called with (1.0 - theta, lambda2,
\* lambda1), theta's tangent is negated, and lambda1 and lambda2 take the
\* slots of the third and the second parameter of the call.
ElseBranchDerivative ==
  LET ks == <<kinds[1], kinds[3], kinds[2]>>
      h == log_mix_partial_helper(RSub(R(1), theta.val), lambda2.val,
                                  lambda1.val, ks[1], ks[2], ks[3],
                                  NFvar(kinds))
      p == h.partials_array
      Slot(n) == Cardinality({j \in 1..n : is_fvar(ks[j])})
      TermTheta == IF is_fvar(kinds[1])
                   THEN RMul(RNeg(theta.d), p[Slot(1)]) ELSE R(0)
      TermLambda1 == IF is_fvar(kinds[2])
                     THEN RMul(lambda1.d, p[Slot(3)]) ELSE R(0)
      TermLambda2 == IF is_fvar(kinds[3])
                     THEN RMul(lambda2.d, p[Slot(2)]) ELSE R(0)
  IN RAdd(RAdd(TermTheta, TermLambda1), TermLambda2)

\* C18: whichever branch the comparison lambda1 > lambda2 selects, the
\* derivative an overload returns equals, in exact arithmetic, both the
\* derivative its if branch builds and the derivative its else branch builds
\* from the same arguments, and the value is log_mix of the primal values.
C18_BranchesAgree ==
  lm_pc = "done" =>
    /\ result.d = IfBranchDerivative
    /\ result.d = ElseBranchDerivative
    /\ result.val = prim_log_mix(theta.val, lambda1.val, lambda2.val)

\* The overload with three fvar arguments has returned from its else branch
\* with lambda1 below lambda2, theta strictly inside (0, 1), a nonzero
\* tangent of theta and a nonzero derivative equal to the if branch's.
C18_Witness ==
  /\ lm_pc = "done"
  /\ branch = "else"
  /\ \A i \in 1..3 : is_fvar(kinds[i])
  /\ lambda1.val < lambda2.val
  /\ RLess(R(0), theta.val) /\ RLess(theta.val, R(1))
  /\ theta.d # R(0)
  /\ result.d # R(0)
  /\ result.d = IfBranchDerivative

===========================================================================
